---- MODULE Spec2Model ----
(***************************************************************************)
(* Model of the natural-language-to-SQL agent layer of dioniDR/t-p:        *)
(* DBConnector, DBConnectionManager, QueryBuilder and the DBAgent facade.  *)
(* Every request is a blocking, single-threaded call chain, so each public *)
(* operation is one atomic action; the outcomes of the collaborators (the  *)
(* database driver, the language-model provider) are chosen with \E.       *)
(***************************************************************************)
EXTENDS Integers, Sequences, FiniteSets, TLC

VARIABLES
    env_vars,        \* DBConnectionManager.env_vars: the .env snapshot
    system_info,     \* DBConnectionManager.system_info: the capability report
    provider,        \* the provider ProviderManager.get_provider() returns
    connections,     \* DBConnectionManager.connections: kind -> record
    db_mappings,     \* DBConnectionManager.db_mappings: kind -> schema map
    connector,       \* DBConnector.connections: name -> driver handle
    handles,         \* the driver handles: handle -> state
    lastOp,          \* the operation performed by the last step
    lastRet,         \* what that operation returned (or that it raised)
    calls,           \* the collaborator calls that operation made, in order
    response,        \* a raw model response handed to SQL extraction
    extracted        \* what _extract_sql_from_response returned for it

vars == <<env_vars, system_info, provider, connections, db_mappings, connector,
          handles, lastOp, lastRet, calls, response, extracted>>

(***************************************************************************)
(* Bounds of the model.                                                    *)
(***************************************************************************)
MaxHandles == 2
MaxLen == 6

(***************************************************************************)
(* Python dicts: functions whose DOMAIN is the set of keys present.        *)
(***************************************************************************)
EmptyDict == [x \in {} |-> x]
None == [none |-> TRUE]
Has(d, k) == k \in DOMAIN d
Get(d, k, default) == IF k \in DOMAIN d THEN d[k] ELSE default
Put(d, k, v) == [x \in (DOMAIN d) \cup {k} |-> IF x = k THEN v ELSE d[x]]
Del(d, k) == [x \in (DOMAIN d) \ {k} |-> d[x]]
Truthy(d) == d # None /\ DOMAIN d # {}

(***************************************************************************)
(* Kinds as the callers spell them, and str.lower() on them.               *)
(***************************************************************************)
Kinds == {"mysql", "MySQL", "sqlite"}
Lower(k) == IF k = "MySQL" THEN "mysql" ELSE k

Handles == 1..MaxHandles
NoHandle == 0

(***************************************************************************)
(* The state the operations thread through: the manager's two tables, the  *)
(* connector's table, the driver handles and the call log.                 *)
(***************************************************************************)
State(c, m, k, h, l) ==
    [connections |-> c, db_mappings |-> m, connector |-> k, handles |-> h, calls |-> l]

Log(st, entry) == [st EXCEPT !.calls = Append(@, entry)]

FreshHandles(st) == {h \in Handles : st.handles[h] = "unused"}
FreshHandle(st) == CHOOSE h \in FreshHandles(st) : \A g \in FreshHandles(st) : h <= g

(***************************************************************************)
(* DBConnector.connect: only 'mysql' reaches the driver; ok is whether the *)
(* driver call succeeds.  Every failure is caught and yields None.         *)
(***************************************************************************)
Called(db_name, params, connected) ==
    [c |-> "connector.connect", kind |-> db_name, params |-> params, connected |-> connected]

ConnectorConnect(st, db_name, params, ok) ==
    IF Lower(db_name) = "mysql" /\ ok /\ FreshHandles(st) # {}
    THEN [st |-> [Log(st, Called(db_name, params, TRUE))
                    EXCEPT !.handles = [@ EXCEPT ![FreshHandle(st)] = "alive"],
                           !.connector = Put(@, db_name, FreshHandle(st))],
          connection |-> FreshHandle(st)]
    ELSE [st |-> Log(st, Called(db_name, params, FALSE)), connection |-> NoHandle]

(***************************************************************************)
(* What _try_connection and DBConnector.connect print of the parameters of *)
(* an attempt: a copy in which the password is replaced by eight asterisks,*)
(* or by the marker for an empty one.  Printed is the lines a call log     *)
(* stands for: the line of each dial, with its outcome, and the            *)
(* announcements as they are.                                              *)
(***************************************************************************)
\* a print of the parameters as they are; C16 does not hold of it
SafeParamsLeaky(params) == params

SafeParams(params) ==
    IF Has(params, "password")
    THEN Put(params, "password", IF params["password"] # "" THEN "********" ELSE "[vacio]")
    ELSE params

Printed(log) ==
    [i \in 1..Len(log) |->
        IF log[i].c = "connector.connect"
        THEN [c |-> "print", kind |-> log[i].kind, params |-> SafeParams(log[i].params),
              connected |-> log[i].connected]
        ELSE log[i]]

(***************************************************************************)
(* DBConnector.is_connected: False for an unknown name; for mysql the      *)
(* handle's own check, where a raising check also yields False.            *)
(***************************************************************************)
IsConnected(st, db_name) ==
    IF ~Has(st.connector, db_name) THEN FALSE
    ELSE IF Lower(db_name) = "mysql" THEN st.handles[st.connector[db_name]] = "alive"
    ELSE FALSE

(***************************************************************************)
(* DBConnector.close: closes and forgets the handle; if the handle's close *)
(* raises (closeOk false) the error is caught and the entry is kept.       *)
(***************************************************************************)
ConnectorClose(st, db_name, closeOk) ==
    IF Has(st.connector, db_name)
    THEN LET logged == Log(st, [c |-> "handle.close", kind |-> db_name])
         IN  IF closeOk
             THEN [logged EXCEPT !.handles = [@ EXCEPT ![st.connector[db_name]] = "closed"],
                                 !.connector = Del(@, db_name)]
             ELSE logged
    ELSE st

(***************************************************************************)
(* int(port_str) on the strings an environment file may hold: a numeral    *)
(* parses, anything else raises ValueError.                                *)
(***************************************************************************)
Numerals == [x \in {"3306", "3307"} |-> IF x = "3306" THEN 3306 ELSE 3307]
IsNumeral(s) == s \in DOMAIN Numerals
ParseInt(s) == Numerals[s]

StrTruthy(d, k) == Has(d, k) /\ d[k] # ""

(***************************************************************************)
(* DBConnectionManager._get_env_params                                     *)
(***************************************************************************)
PutIf(cond, d, k, v) == IF cond THEN Put(d, k, v) ELSE d
\* a completeness test that asks for the user alone; C10 does not hold of it
CompleteWithUser(params) == IF Has(params, "user") THEN params ELSE None
Complete(params) == IF Has(params, "host") /\ Has(params, "user") THEN params ELSE None

GetEnvParams(env, db_type) ==
    IF DOMAIN env = {} THEN None
    ELSE IF db_type = "mysql"
    THEN Complete(
           PutIf(StrTruthy(env, "MYSQL_DATABASE"),
             PutIf(Has(env, "MYSQL_PASSWORD"),
               PutIf(StrTruthy(env, "MYSQL_USER"),
                 PutIf(StrTruthy(env, "MYSQL_PORT") /\ IsNumeral(Get(env, "MYSQL_PORT", "")),
                   PutIf(StrTruthy(env, "MYSQL_HOST"),
                         [x \in {"type"} |-> db_type],
                         "host", Get(env, "MYSQL_HOST", "")),
                   "port", ParseInt(Get(env, "MYSQL_PORT", "3306"))),
                 "user", Get(env, "MYSQL_USER", "")),
               "password", Get(env, "MYSQL_PASSWORD", "")),
             "database", Get(env, "MYSQL_DATABASE", "")))
    ELSE None

(***************************************************************************)
(* What DBConnector.connect hands to the mysql driver: host, port, user    *)
(* and password of the parameters, each with its built-in default, and the *)
(* database when one is named.                                             *)
(***************************************************************************)
ConnParams(params) ==
    PutIf(StrTruthy(params, "database"),
          [x \in {"host", "port", "user", "password"} |->
             CASE x = "host" -> Get(params, "host", "127.0.0.1")
               [] x = "port" -> Get(params, "port", 3306)
               [] x = "user" -> Get(params, "user", "root")
               [] OTHER -> Get(params, "password", "")],
          "database", Get(params, "database", ""))

(***************************************************************************)
(* DBConnectionManager._get_system_params                                  *)
(***************************************************************************)
DefaultMySQLPort == 3306
DefaultPostgresPort == 5432

\* a synthesis that ignores the detected ports; C11 does not hold of it
GetSystemParamsDefaultPort(info, db_type) ==
    IF info = None \/ ~Has(info, "database_systems") THEN None
    ELSE IF ~Has(info["database_systems"], db_type) THEN None
    ELSE LET base == [x \in {"type", "host", "user", "password"} |->
                        CASE x = "type" -> db_type
                          [] x = "host" -> "127.0.0.1"
                          [] x = "user" -> IF db_type = "mysql" THEN "root" ELSE "postgres"
                          [] OTHER -> ""]
         IN  IF db_type = "mysql" THEN Put(base, "port", DefaultMySQLPort)
             ELSE IF db_type = "postgresql" THEN Put(base, "port", DefaultPostgresPort)
             ELSE base

GetSystemParams(info, db_type) ==
    IF info = None \/ ~Has(info, "database_systems") THEN None
    ELSE IF ~Has(info["database_systems"], db_type) THEN None
    ELSE LET db_info == info["database_systems"][db_type]
             base == [x \in {"type", "host", "user", "password"} |->
                        CASE x = "type" -> db_type
                          [] x = "host" -> "127.0.0.1"
                          [] x = "user" -> IF db_type = "mysql" THEN "root" ELSE "postgres"
                          [] OTHER -> ""]
             ports == db_info.ports_detected
         IN  IF Len(ports) > 0 THEN Put(base, "port", ports[1])
             ELSE IF db_type = "mysql" THEN Put(base, "port", DefaultMySQLPort)
             ELSE IF db_type = "postgresql" THEN Put(base, "port", DefaultPostgresPort)
             ELSE base

(***************************************************************************)
(* DBConnectionManager._generate_failure_message, as the parts the text is *)
(* composed of.                                                            *)
(***************************************************************************)
GenerateFailureMessage(env, info, db_type) ==
    LET known == info # None /\ Has(info, "database_systems")
                 /\ Has(info["database_systems"], db_type)
        db_info == info["database_systems"][db_type]
    IN  [tag |-> "exhausted",
         db_type |-> db_type,
         check_server |-> TRUE,
         configured_port |-> IF db_type = "mysql"
                             THEN (IF StrTruthy(env, "MYSQL_PORT") THEN env["MYSQL_PORT"] ELSE "no definido")
                             ELSE "",
         check_credentials |-> db_type = "mysql",
         ports |-> IF known THEN db_info.ports_detected ELSE <<>>,
         client_only |-> known /\ db_info.status = "client_only"]

(***************************************************************************)
(* DBConnectionManager._try_connection; tier names the attempt announced   *)
(* by connect just before it.                                              *)
(***************************************************************************)
Stored(r, db_type, params) ==
    IF r.connection # NoHandle
    THEN [st |-> [r.st EXCEPT !.connections =
                    Put(@, db_type, [active |-> TRUE, connection |-> r.connection,
                                     params |-> params])],
          success |-> TRUE, message |-> [tag |-> "connected", db_type |-> db_type]]
    ELSE [st |-> r.st, success |-> FALSE, message |-> [tag |-> "no_connection"]]

TryConnection(st, db_type, params, tier, ok) ==
    Stored(ConnectorConnect(Log(st, [c |-> "attempt", tier |-> tier]), db_type, params, ok),
           db_type, params)

Skipped(st) == [st |-> st, success |-> FALSE, message |-> None]

(***************************************************************************)
(* The liveness check of connect never sees an exception: is_connected     *)
(* catches every one of them itself.                                       *)
(***************************************************************************)
ProbeRaises(st, db_type) == FALSE

(***************************************************************************)
(* DBConnectionManager.connect; o.explicit, o.env, o.system say whether    *)
(* the driver would accept the attempt of that tier.  Step 1 is the        *)
(* liveness check of a record held as active, steps 2 to 4 the tiers, step *)
(* 5 the failure message.                                                  *)
(***************************************************************************)
\* a connect without step 1, which dials on every call; C1 does not hold of it
CheckExistingNeverReuses(st, db_type) == [st |-> st, reuse |-> FALSE]

CheckExisting(st, db_type) ==
    IF Has(st.connections, db_type) /\ st.connections[db_type].active
    THEN IF ProbeRaises(st, db_type)
         THEN [st |-> [Log(st, [c |-> "connector.is_connected", kind |-> db_type,
                                alive |-> FALSE])
                         EXCEPT !.connections[db_type].active = FALSE],
               reuse |-> FALSE]
         ELSE [st |-> Log(st, [c |-> "connector.is_connected", kind |-> db_type,
                                alive |-> IsConnected(st, db_type)]),
               reuse |-> IsConnected(st, db_type)]
    ELSE [st |-> st, reuse |-> FALSE]

Exhausted(t4, env, info, db_type) ==
    IF t4.success THEN t4
    ELSE [st |-> t4.st, success |-> FALSE,
          message |-> GenerateFailureMessage(env, info, db_type)]

SystemTier(t3, env, info, db_type, sys_params, o) ==
    IF t3.success THEN t3
    ELSE Exhausted(IF sys_params # None
                   THEN TryConnection(t3.st, db_type, sys_params, "system", o.system)
                   ELSE Skipped(t3.st),
                   env, info, db_type)

\* an environment tier tried whatever the explicit tier gave; C2 does not hold of it
EnvTierRegardless(t2, env, info, db_type, env_params, o) ==
    SystemTier(IF env_params # None
               THEN TryConnection(t2.st, db_type, env_params, "environment", o.env)
               ELSE Skipped(t2.st),
               env, info, db_type, GetSystemParams(info, db_type), o)

EnvTier(t2, env, info, db_type, env_params, o) ==
    IF t2.success THEN t2
    ELSE SystemTier(IF env_params # None
                    THEN TryConnection(t2.st, db_type, env_params, "environment", o.env)
                    ELSE Skipped(t2.st),
                    env, info, db_type, GetSystemParams(info, db_type), o)

\* a connect that gives up when the liveness check of its record fails; C21
\* does not hold of it
ExplicitTierGivesUp(s1, env, info, db_type, custom_params, o) ==
    IF s1.reuse
    THEN [st |-> s1.st, success |-> TRUE, message |-> [tag |-> "reused", db_type |-> db_type]]
    ELSE IF Has(s1.st.connections, db_type) /\ s1.st.connections[db_type].active
    THEN Exhausted(Skipped(s1.st), env, info, db_type)
    ELSE EnvTier(IF Truthy(custom_params)
                 THEN TryConnection(s1.st, db_type, custom_params, "explicit", o.explicit)
                 ELSE Skipped(s1.st),
                 env, info, db_type, GetEnvParams(env, db_type), o)

\* a connect that dials again when its explicit parameters are not those of
\* the live record; C30 does not hold of it
ExplicitTierPrefersParams(s1, env, info, db_type, custom_params, o) ==
    IF s1.reuse /\ ~(Truthy(custom_params)
                     /\ custom_params # s1.st.connections[db_type].params)
    THEN [st |-> s1.st, success |-> TRUE, message |-> [tag |-> "reused", db_type |-> db_type]]
    ELSE EnvTier(IF Truthy(custom_params)
                 THEN TryConnection(s1.st, db_type, custom_params, "explicit", o.explicit)
                 ELSE Skipped(s1.st),
                 env, info, db_type, GetEnvParams(env, db_type), o)

ExplicitTier(s1, env, info, db_type, custom_params, o) ==
    IF s1.reuse
    THEN [st |-> s1.st, success |-> TRUE, message |-> [tag |-> "reused", db_type |-> db_type]]
    ELSE EnvTier(IF Truthy(custom_params)
                 THEN TryConnection(s1.st, db_type, custom_params, "explicit", o.explicit)
                 ELSE Skipped(s1.st),
                 env, info, db_type, GetEnvParams(env, db_type), o)

ManagerConnect(st, env, info, db_type, custom_params, o) ==
    ExplicitTier(CheckExisting(st, Lower(db_type)), env, info, Lower(db_type), custom_params, o)

(***************************************************************************)
(* DBConnectionManager.close; closeOk(k) says whether the close of k's     *)
(* handle succeeds.  db_type = None closes every record.                   *)
(***************************************************************************)
RECURSIVE CloseEach(_, _, _)
CloseEach(st, names, closeOk) ==
    IF names = {} THEN st
    ELSE LET n == CHOOSE x \in names : TRUE
         IN  CloseEach(ConnectorClose(st, n, closeOk[n]), names \ {n}, closeOk)

\* a close that keeps the record when the handle's close failed; C3 does not
\* hold of it
ManagerCloseKeepsOnFailure(st, db_type, closeOk) ==
    IF db_type # "None"
    THEN IF Has(st.connections, db_type)
         THEN LET closed == ConnectorClose(st, db_type, closeOk[db_type])
              IN  IF Has(closed.connector, db_type) THEN closed
                  ELSE [closed EXCEPT !.connections = Del(@, db_type)]
         ELSE st
    ELSE [CloseEach(st, DOMAIN st.connections, closeOk) EXCEPT !.connections = EmptyDict]

\* a close that closes every kind whichever was named; C26 does not hold of it
ManagerCloseEveryKind(st, db_type, closeOk) ==
    [CloseEach(st, DOMAIN st.connections, closeOk) EXCEPT !.connections = EmptyDict]

ManagerClose(st, db_type, closeOk) ==
    IF db_type # "None"
    THEN IF Has(st.connections, db_type)
         THEN LET closed == ConnectorClose(st, db_type, closeOk[db_type])
              IN  [closed EXCEPT !.connections = Del(@, db_type)]
         ELSE st
    ELSE [CloseEach(st, DOMAIN st.connections, closeOk) EXCEPT !.connections = EmptyDict]

(***************************************************************************)
(* Text, as a sequence of tokens: the fence marker (three backticks, BT),  *)
(* the tag, whitespace,                                                    *)
(* statement keywords and prose words.  Concatenating the tokens gives the *)
(* string.                                                                 *)
(***************************************************************************)
BT == "<fence>"
SP == " "
NL == "\n"
IsWs(t) == t \in {SP, NL}
Keywords == {"SELECT", "INSERT", "UPDATE", "DELETE", "CREATE", "ALTER", "DROP", "SHOW"}

\* str.strip()
RECURSIVE LStrip(_)
LStrip(s) == IF s # <<>> /\ IsWs(Head(s)) THEN LStrip(Tail(s)) ELSE s
RECURSIVE RStrip(_)
RStrip(s) == IF s # <<>> /\ IsWs(s[Len(s)]) THEN RStrip(SubSeq(s, 1, Len(s) - 1)) ELSE s
Strip(s) == RStrip(LStrip(s))

\* str.split on newline: the empty string splits into one empty line
RECURSIVE SplitLines(_, _, _)
SplitLines(s, cur, acc) ==
    IF s = <<>> THEN Append(acc, cur)
    ELSE IF Head(s) = NL THEN SplitLines(Tail(s), <<>>, Append(acc, cur))
    ELSE SplitLines(Tail(s), Append(cur, Head(s)), acc)
Split(s) == SplitLines(s, <<>>, <<>>)

\* join(lines) with a single space
RECURSIVE Join(_)
Join(ls) ==
    IF ls = <<>> THEN <<>>
    ELSE IF Len(ls) = 1 THEN ls[1]
    ELSE ls[1] \o <<SP>> \o Join(Tail(ls))

\* line.strip().startswith(keywords): the match is case-sensitive
StartsWithKeyword(line) == Strip(line) # <<>> /\ Head(Strip(line)) \in Keywords

(***************************************************************************)
(* The first match of the pattern: fence marker, sql, whitespace, a lazy   *)
(* group, whitespace, fence marker (DOTALL).  It starts at the leftmost    *)
(* position where the pattern matches; the whitespace after the tag is     *)
(* taken greedily; the group is the shortest after which whitespace and a  *)
(* fence marker follow.                                                    *)
(***************************************************************************)
FenceStarts(r) ==
    {i \in 1..(Len(r) - 1) :
        r[i] = BT /\ r[i + 1] = "sql" /\ \E j \in (i + 2)..Len(r) : r[j] = BT}

Min(S) == CHOOSE x \in S : \A y \in S : x <= y

RECURSIVE SkipWs(_, _)
SkipWs(r, p) == IF p <= Len(r) /\ IsWs(r[p]) THEN SkipWs(r, p + 1) ELSE p

FirstMatch(r) ==
    LET i == Min(FenceStarts(r))
        p == SkipWs(r, i + 2)
        ends == {e \in p..Len(r) :
                    \E j \in e..Len(r) : r[j] = BT /\ \A k \in e..(j - 1) : IsWs(r[k])}
    IN  SubSeq(r, p, Min(ends) - 1)

\* the for loop over the lines, appending each line that matches
RECURSIVE SqlLines(_, _)
SqlLines(lines, sql_lines) ==
    IF lines = <<>> THEN sql_lines
    ELSE SqlLines(Tail(lines),
                  IF StartsWithKeyword(Head(lines)) THEN Append(sql_lines, Head(lines))
                  ELSE sql_lines)

(***************************************************************************)
(* QueryBuilder._extract_sql_from_response                                 *)
(***************************************************************************)
ExtractSqlFromResponse(r) ==
    IF FenceStarts(r) # {} THEN Strip(FirstMatch(r))
    ELSE LET sql_lines == SqlLines(Split(Strip(r)), <<>>)
         IN  IF sql_lines # <<>> THEN Join(sql_lines) ELSE Strip(r)

(***************************************************************************)
(* The responses handed to extraction: every text of at most MaxLen tokens *)
(* over the alphabet.                                                      *)
(***************************************************************************)
Alphabet == {BT, "sql", SP, NL, "SELECT", "select", "x"}
TextsUpTo(n) == UNION {[1..m -> Alphabet] : m \in 0..n}

(***************************************************************************)
(* str.upper() on a token, and the test execute_query makes to tell a      *)
(* query that returns rows from one that does not.                         *)
(***************************************************************************)
Upper(t) == CASE t = "select" -> "SELECT" [] t = "sql" -> "SQL" [] t = "x" -> "X" [] OTHER -> t
ReturnsRows(query) ==
    Strip(query) # <<>> /\ Upper(Head(Strip(query))) \in {"SELECT", "SHOW", "DESCRIBE"}

(***************************************************************************)
(* DBConnector.execute_query; out is what the driver does with the query:  *)
(* out.ok false is any exception of cursor(), execute() or fetchall().     *)
(***************************************************************************)
Delegated(st, db_name, query) ==
    Log(st, [c |-> "connector.execute_query", kind |-> db_name, query |-> query])
Driven(st, db_name, query, ok) ==
    Log(Delegated(st, db_name, query),
        [c |-> "driver.execute", kind |-> db_name, query |-> query, ok |-> ok])

ConnectorExecuteQuery(st, db_name, query, out) ==
    IF ~Has(st.connector, db_name)
    THEN [st |-> Delegated(st, db_name, query), results |-> <<>>]
    ELSE IF out.ok /\ st.handles[st.connector[db_name]] = "alive"
    THEN [st |-> Driven(st, db_name, query, TRUE),
          results |-> IF ReturnsRows(query) THEN out.rows ELSE <<<<"affected_rows">>>>]
    ELSE [st |-> Driven(st, db_name, query, FALSE), results |-> <<>>]

ShowTables == <<"SHOW", SP, "TABLES">>
Describe(table_name) == <<"DESCRIBE", SP, table_name>>

\* [col[0] for col in columns]
RECURSIVE FirstOfEach(_)
FirstOfEach(rows) == IF rows = <<>> THEN <<>> ELSE <<Head(rows)[1]>> \o FirstOfEach(Tail(rows))

(***************************************************************************)
(* DBConnectionManager._generate_mapping: only mysql has a generator.  The *)
(* connector's execute_query never raises; table[0] raises on a row that   *)
(* has no first field, and the except clause turns that into None.         *)
(***************************************************************************)
RECURSIVE MapTables(_, _, _, _, _)
Described(r, db_type, tables, acc, colsOut) ==
    MapTables(r.st, db_type, Tail(tables),
              Put(acc, Head(tables)[1], [columns |-> FirstOfEach(r.results)]), colsOut)

MapTables(st, db_type, tables, acc, colsOut) ==
    IF tables = <<>> THEN [st |-> st, mapping |-> [tables |-> acc]]
    ELSE IF Head(tables) = <<>> THEN [st |-> st, mapping |-> None]
    ELSE Described(ConnectorExecuteQuery(st, db_type, Describe(Head(tables)[1]), colsOut),
                   db_type, tables, acc, colsOut)

Listed(t, db_type, colsOut) == MapTables(t.st, db_type, t.results, EmptyDict, colsOut)

GenerateMapping(st, db_type, mo) ==
    IF db_type = "mysql"
    THEN Listed(ConnectorExecuteQuery(st, db_type, ShowTables, mo.tables), db_type, mo.columns)
    ELSE [st |-> st, mapping |-> None]

(***************************************************************************)
(* DBConnectionManager.verify_mapping and get_mapping                      *)
(***************************************************************************)
StoreMapping(g, db_type) ==
    IF g.mapping # None
    THEN [st |-> [g.st EXCEPT !.db_mappings = Put(@, db_type, g.mapping)], ok |-> TRUE]
    ELSE [st |-> g.st, ok |-> FALSE]

VerifyMapping(st, db_type, mo) ==
    IF Has(st.db_mappings, db_type)
    THEN [st |-> Log(st, [c |-> "verify_mapping", kind |-> db_type]), ok |-> TRUE]
    ELSE IF Has(st.connections, db_type) /\ st.connections[db_type].active
    THEN StoreMapping(GenerateMapping(Log(st, [c |-> "verify_mapping", kind |-> db_type]),
                                      db_type, mo),
                      db_type)
    ELSE [st |-> Log(st, [c |-> "verify_mapping", kind |-> db_type]), ok |-> FALSE]

Fetched(v, db_type) ==
    [st |-> v.st, mapping |-> IF v.ok THEN Get(v.st.db_mappings, db_type, None) ELSE None]

GetMapping(st, db_type, mo) ==
    Fetched(VerifyMapping(Log(st, [c |-> "get_mapping", kind |-> db_type]), db_type, mo),
            db_type)

(***************************************************************************)
(* DBConnectionManager.execute_query                                       *)
(***************************************************************************)
\* a delegation made whatever connect returned; C17 does not hold of it
ExecuteRegardless(c, db_type, query, out) == ConnectorExecuteQuery(c.st, db_type, query, out)

ExecuteIfConnected(c, db_type, query, out) ==
    IF ~c.success THEN [st |-> c.st, results |-> <<>>]
    ELSE ConnectorExecuteQuery(c.st, db_type, query, out)

ManagerExecuteQuery(st, env, info, db_type, query, o) ==
    IF ~Has(st.connections, db_type) \/ ~st.connections[db_type].active
    THEN ExecuteIfConnected(ManagerConnect(Log(st, [c |-> "connect", db_type |-> db_type,
                                                    custom_params |-> None]),
                                           env, info, db_type, None, o.connect),
                            db_type, query, o.execute)
    ELSE ConnectorExecuteQuery(st, db_type, query, o.execute)

(***************************************************************************)
(* generate_text of the three providers; g.ok is whether the HTTP call     *)
(* worked and g.text what the model answered.  ClaudeProvider re-raises a  *)
(* failure as RuntimeError, OpenAIProvider lets it propagate, and          *)
(* OllamaProvider returns the error message as if it were the answer.      *)
(***************************************************************************)
Providers == {"claude", "ollama"}
OllamaErrorText == <<"Error", SP, "en", SP, "OllamaProvider">>

GenerateText(prov, g) ==
    IF g.ok THEN [raised |-> FALSE, text |-> g.text]
    ELSE IF prov = "ollama" THEN [raised |-> FALSE, text |-> OllamaErrorText]
    ELSE [raised |-> TRUE, text |-> <<>>]

(***************************************************************************)
(* QueryBuilder._build_sql_generation_prompt, as the parts of the prompt   *)
(***************************************************************************)
BuildSqlGenerationPrompt(natural_query, db_connection, db_mapping) ==
    [purpose |-> "sql",
     db_type |-> Lower(Get(db_connection, "type", "mysql")),
     request |-> natural_query,
     db_name |-> Get(db_connection, "database", ""),
     schema |-> IF db_mapping # None /\ Has(db_mapping, "tables")
                THEN db_mapping["tables"] ELSE None]

(***************************************************************************)
(* QueryBuilder.build_query and explain_query: neither catches what        *)
(* generate_text raises.                                                   *)
(***************************************************************************)
Extracted(st, r) ==
    [st |-> st, raised |-> r.raised,
     sql_query |-> IF r.raised THEN <<>> ELSE ExtractSqlFromResponse(r.text)]

BuildQuery(st, prov, natural_query, db_connection, db_mapping, g) ==
    Extracted(Log(st, [c |-> "generate_text",
                       prompt |-> BuildSqlGenerationPrompt(natural_query, db_connection,
                                                           db_mapping)]),
              GenerateText(prov, g))

Explained(st, r) == [st |-> st, raised |-> r.raised, explanation |-> r.text]

ExplainQuery(st, prov, sql_query, natural_query, g) ==
    Explained(Log(st, [c |-> "generate_text",
                       prompt |-> [purpose |-> "explain", sql |-> sql_query,
                                   request |-> natural_query]]),
              GenerateText(prov, g))

(***************************************************************************)
(* DBAgent.validate_input and DBAgent._format_response.  A request is      *)
(* either a bare string [is_str, text] or a dict, given by which of its    *)
(* keys are present: [has_prompt, prompt, has_connection, is_dict,         *)
(* connection], is_dict being isinstance(connection, dict).                *)
(***************************************************************************)
\* a validation that looks at the prompt alone; C6 does not hold of it
ValidateInputPromptOnly(input_dict) == input_dict.has_prompt /\ input_dict.prompt # ""

ValidateInput(input_dict) ==
    /\ input_dict.has_prompt /\ input_dict.prompt # ""
    /\ input_dict.has_connection /\ input_dict.is_dict

Raised(exc) == [raised |-> TRUE, form |-> "exception", value |-> exc]

\* json.dumps(results, indent=2) has no default: a cell that is a date (or a
\* Decimal, or bytes) makes it raise TypeError
DateCell == "datetime.date(2024, 1, 31)"
JsonRenderable(results) ==
    \A i \in 1..Len(results) : \A j \in 1..Len(results[i]) : results[i][j] # DateCell

FormatResponse(resp, crew_mode) ==
    IF ~crew_mode THEN [raised |-> FALSE, form |-> "dict", value |-> resp]
    ELSE IF Has(resp, "error")
    THEN [raised |-> FALSE, form |-> "text",
          value |-> [error |-> resp["error"],
                     suggestion |-> Get(resp, "suggestion", "Intente con otra consulta")]]
    ELSE IF ~JsonRenderable(resp["results"]) THEN Raised("TypeError")
    ELSE [raised |-> FALSE, form |-> "text",
          value |-> [query |-> resp["query"], results |-> [json |-> resp["results"]],
                     explanation |-> resp["explanation"]]]

(***************************************************************************)
(* DBAgent.run                                                             *)
(***************************************************************************)
InputDict(input_data) ==
    IF input_data.is_str
    THEN [has_prompt |-> TRUE, prompt |-> input_data.text,
          has_connection |-> TRUE, is_dict |-> TRUE,
          connection |-> [x \in {"type"} |-> "mysql"]]
    ELSE [has_prompt |-> input_data.has_prompt, prompt |-> input_data.prompt,
          has_connection |-> input_data.has_connection, is_dict |-> input_data.is_dict,
          connection |-> input_data.connection]

\* lines 95-103: the response is assembled, unless explain_query raised
AfterExplain(e, b, x, crew_mode) ==
    IF e.raised THEN [st |-> e.st, ret |-> Raised("RuntimeError")]
    ELSE [st |-> e.st,
          ret |-> FormatResponse([query |-> b.sql_query, results |-> x.results,
                                  explanation |-> e.explanation], crew_mode)]

\* lines 92-93
AfterExecute(x, b, prov, prompt, crew_mode, o) ==
    AfterExplain(ExplainQuery(x.st, prov, b.sql_query, prompt, o.explain), b, x, crew_mode)

\* a run that asks for the explanation before it executes; C23 does not hold of it
AfterBuildExplainsFirst(b, env, info, prov, db_type, prompt, crew_mode, o) ==
    IF b.raised THEN [st |-> b.st, ret |-> Raised("RuntimeError")]
    ELSE LET e == ExplainQuery(b.st, prov, b.sql_query, prompt, o.explain)
             x == ManagerExecuteQuery(e.st, env, info, db_type, b.sql_query, o)
         IN  AfterExplain([e EXCEPT !.st = x.st], b, x, crew_mode)

\* lines 89-90: whatever build_query returned is executed, unless it raised
AfterBuild(b, env, info, prov, db_type, prompt, crew_mode, o) ==
    IF b.raised THEN [st |-> b.st, ret |-> Raised("RuntimeError")]
    ELSE AfterExecute(ManagerExecuteQuery(b.st, env, info, db_type, b.sql_query, o),
                      b, prov, prompt, crew_mode, o)

\* lines 86-87
AfterMapping(m, env, info, prov, db_type, prompt, db_connection, crew_mode, o) ==
    AfterBuild(BuildQuery(m.st, prov, prompt, db_connection, m.mapping, o.generate),
               env, info, prov, db_type, prompt, crew_mode, o)

\* lines 75-84
AfterVerify(v, env, info, prov, db_type, prompt, db_connection, crew_mode, o) ==
    IF ~v.ok
    THEN [st |-> v.st,
          ret |-> FormatResponse([error |-> [tag |-> "no_structure"],
                                  suggestion |-> "Verifique los permisos y la conexion"],
                                 crew_mode)]
    ELSE AfterMapping(GetMapping(v.st, db_type, o.mapping),
                      env, info, prov, db_type, prompt, db_connection, crew_mode, o)

\* a run that goes on whatever connect returned; C5 does not hold of it
AfterConnectUnchecked(c, env, info, prov, db_type, prompt, db_connection, crew_mode, o) ==
    AfterVerify(VerifyMapping(c.st, db_type, o.mapping),
                env, info, prov, db_type, prompt, db_connection, crew_mode, o)

\* lines 68-73
AfterConnect(c, env, info, prov, db_type, prompt, db_connection, crew_mode, o) ==
    IF ~c.success
    THEN [st |-> c.st,
          ret |-> FormatResponse(
                    [error |-> [tag |-> "no_connection", message |-> c.message],
                     suggestion |-> "Verifique las credenciales e intente nuevamente"],
                    crew_mode)]
    ELSE AfterVerify(VerifyMapping(c.st, db_type, o.mapping),
                     env, info, prov, db_type, prompt, db_connection, crew_mode, o)

\* lines 53-66
Validated(st, env, info, prov, input, crew_mode, o) ==
    IF ~ValidateInput(input)
    THEN [st |-> st, ret |-> FormatResponse([error |-> [tag |-> "invalid_input"]], crew_mode)]
    ELSE AfterConnect(ManagerConnect(st, env, info,
                                     Lower(Get(input.connection, "type", "mysql")),
                                     input.connection, o.connect),
                      env, info, prov, Lower(Get(input.connection, "type", "mysql")),
                      input.prompt, input.connection, crew_mode, o)

AgentRun(st, env, info, prov, input_data, o) ==
    Validated(st, env, info, prov, InputDict(input_data), input_data.is_str, o)

(***************************************************************************)
(* The inputs and collaborator outcomes the actions choose from.           *)
(***************************************************************************)
EnvFull == [x \in {"MYSQL_HOST", "MYSQL_PORT", "MYSQL_USER", "MYSQL_PASSWORD", "MYSQL_DATABASE"} |->
              CASE x = "MYSQL_HOST" -> "10.0.0.5"
                [] x = "MYSQL_PORT" -> "3307"
                [] x = "MYSQL_USER" -> "app"
                [] x = "MYSQL_PASSWORD" -> ""
                [] OTHER -> "shop"]
EnvNoHost == [x \in {"MYSQL_PORT", "MYSQL_USER", "MYSQL_PASSWORD"} |->
              CASE x = "MYSQL_PORT" -> "3307"
                [] x = "MYSQL_USER" -> "app"
                [] OTHER -> "s3cret"]
EnvNoUser == [x \in {"MYSQL_HOST", "MYSQL_PORT"} |->
              IF x = "MYSQL_HOST" THEN "10.0.0.5" ELSE "abc"]
EnvEmptyHost == [x \in {"MYSQL_HOST", "MYSQL_USER"} |-> IF x = "MYSQL_HOST" THEN "" ELSE "app"]
EnvSnapshots == {EmptyDict, EnvFull, EnvNoHost, EnvNoUser, EnvEmptyHost}

SqliteInfo == [client_available |-> TRUE, ports_detected |-> <<>>, status |-> "client_only"]
MySQLInfo == [client_available |-> TRUE, ports_detected |-> <<3306>>, status |-> "fully_available"]
ReportSqliteOnly == [database_systems |-> [x \in {"sqlite"} |-> SqliteInfo]]
ReportMySQL == [database_systems |->
                  [x \in {"mysql", "sqlite"} |-> IF x = "mysql" THEN MySQLInfo ELSE SqliteInfo]]
Reports == {ReportSqliteOnly, ReportMySQL}

\* reports with several ports, with none, and with a kind the connector has
\* no driver for
Detected(client_available, ports_detected) ==
    [client_available |-> client_available, ports_detected |-> ports_detected,
     status |-> IF client_available /\ ports_detected # <<>> THEN "fully_available"
                ELSE IF client_available THEN "client_only" ELSE "ports_only"]
ReportManyPorts == [database_systems |->
                      [x \in {"mysql", "postgresql"} |->
                         IF x = "mysql" THEN Detected(TRUE, <<3307, 3306>>)
                         ELSE Detected(TRUE, <<>>)]]
ReportNoPorts == [database_systems |->
                    [x \in {"mysql", "postgresql"} |->
                       IF x = "mysql" THEN Detected(TRUE, <<>>)
                       ELSE Detected(FALSE, <<5433>>)]]
ManagerReports == Reports \cup {ReportManyPorts, ReportNoPorts}
ConnectKinds == Kinds \cup {"postgresql"}

TypeOnly(k) == [x \in {"type"} |-> k]
ExplicitMySQL == [x \in {"type", "host", "user", "password", "database"} |->
                    CASE x = "type" -> "MySQL"
                      [] x = "host" -> "db.example"
                      [] x = "user" -> "admin"
                      [] x = "password" -> "hunter2"
                      [] OTHER -> "shop"]
SqliteMemory == [x \in {"type", "database"} |-> IF x = "type" THEN "sqlite" ELSE ":memory:"]
CustomParams == {None, TypeOnly("mysql"), ExplicitMySQL}

Request(has_prompt, prompt, has_connection, is_dict, connection) ==
    [is_str |-> FALSE, text |-> "", has_prompt |-> has_prompt, prompt |-> prompt,
     has_connection |-> has_connection, is_dict |-> is_dict, connection |-> connection]
BareString(text) ==
    [is_str |-> TRUE, text |-> text, has_prompt |-> FALSE, prompt |-> "",
     has_connection |-> FALSE, is_dict |-> FALSE, connection |-> EmptyDict]
Question == "list all clients"
RunInputs ==
    {BareString(""), BareString(Question),
     Request(FALSE, "", TRUE, TRUE, TypeOnly("mysql")),
     Request(TRUE, "", TRUE, TRUE, TypeOnly("mysql")),
     Request(TRUE, Question, FALSE, FALSE, EmptyDict),
     Request(TRUE, Question, TRUE, FALSE, EmptyDict),
     Request(TRUE, Question, TRUE, TRUE, TypeOnly("mysql")),
     Request(TRUE, Question, TRUE, TRUE, ExplicitMySQL),
     Request(TRUE, Question, TRUE, TRUE, SqliteMemory)}

\* what the driver does with one query
Failed == [ok |-> FALSE, rows |-> <<>>]
Rows(rows) == [ok |-> TRUE, rows |-> rows]
Malformed == Rows(<< <<>> >>)
TableOutcomes == {Failed, Rows(<<>>), Rows(<< <<"clients">> >>), Malformed}
ColumnOutcomes == {Failed, Rows(<< <<"id">>, <<"name">> >>)}
QueryOutcomes == {Failed, Rows(<<>>), Rows(<< <<"1">> >>), Rows(<< <<DateCell>> >>)}
\* the same, less the empty result, for the query of a run
RunQueryOutcomes == QueryOutcomes \ {Rows(<<>>)}

\* what the model answers
Fenced == <<"Here", NL, BT, "sql", NL, "SELECT", SP, "1", NL, BT>>
Answers == {[ok |-> FALSE, text |-> <<>>], [ok |-> TRUE, text |-> <<>>],
            [ok |-> TRUE, text |-> Fenced]}
Explanations == {[ok |-> FALSE, text |-> <<>>], [ok |-> TRUE, text |-> <<"It", SP, "lists">>]}

(***************************************************************************)
(* The outcomes a call can meet in the current state: an outcome the call  *)
(* cannot reach (a tier with no candidate, the tiers behind a live record  *)
(* or behind a tier that succeeds, the generator behind a cached map, the  *)
(* column listing of no table) is fixed, since it changes nothing.         *)
(***************************************************************************)
Choice(relevant) == IF relevant THEN BOOLEAN ELSE {FALSE}

ConnectOutcomes(db_type, custom_params) ==
    LET k == Lower(db_type)
        st == State(connections, db_mappings, connector, handles, <<>>)
        reuse == Has(connections, k) /\ connections[k].active /\ IsConnected(st, k)
        driver == k = "mysql" /\ ~reuse
    IN  {o \in [explicit : Choice(driver /\ Truthy(custom_params)),
                   env : Choice(driver /\ GetEnvParams(env_vars, k) # None),
                   system : Choice(driver /\ GetSystemParams(system_info, k) # None)] :
            /\ o.explicit => ~o.env /\ ~o.system
            /\ o.env => ~o.system}

MappingOutcomes(db_type) ==
    IF Has(db_mappings, db_type) \/ db_type # "mysql"
    THEN {[tables |-> Failed, columns |-> Failed]}
    ELSE {o \in [tables : TableOutcomes, columns : ColumnOutcomes] :
            o.tables # Rows(<< <<"clients">> >>) => o.columns = Failed}

(***************************************************************************)
(* The state after DBAgent.__init__: the environment snapshot and the      *)
(* capability report are read once, every table is empty.                  *)
(***************************************************************************)
NoRet == [raised |-> FALSE, form |-> "none", value |-> None]

Constructed(snapshots, reports, configured, texts) ==
    /\ env_vars \in snapshots
    /\ system_info \in reports
    /\ provider \in configured
    /\ connections = EmptyDict
    /\ db_mappings = EmptyDict
    /\ connector = EmptyDict
    /\ handles = [h \in Handles |-> "unused"]
    /\ lastOp = [op |-> "init"]
    /\ lastRet = NoRet
    /\ calls = <<>>
    /\ response \in texts
    /\ extracted = <<>>

Current == State(connections, db_mappings, connector, handles, <<>>)

Commit(st) ==
    /\ connections' = st.connections
    /\ db_mappings' = st.db_mappings
    /\ connector' = st.connector
    /\ handles' = st.handles
    /\ calls' = st.calls
    /\ UNCHANGED <<env_vars, system_info, provider, response, extracted>>

\* connection_manager.connect(db_type, custom_params)
Connect(db_type, custom_params) ==
    \E o \in ConnectOutcomes(db_type, custom_params) :
        LET r == ManagerConnect(Current, env_vars, system_info, db_type, custom_params, o)
        IN  /\ Commit(r.st)
            /\ lastOp' = [op |-> "connect", db_type |-> db_type, custom_params |-> custom_params]
            /\ lastRet' = [raised |-> FALSE, form |-> "tuple",
                           value |-> [success |-> r.success, message |-> r.message]]

\* connection_manager.close(db_type); "None" is close() with no kind
Close(db_type) ==
    \E closeOk \in [Kinds -> BOOLEAN] :
        /\ \A k \in Kinds : ~Has(connector, k) => ~closeOk[k]
        /\ Commit(ManagerClose(Current, db_type, closeOk))
        /\ lastOp' = [op |-> "close", db_type |-> db_type]
        /\ lastRet' = NoRet

\* connection_manager.execute_query(db_type, query)
ExecuteQuery(db_type, query) ==
    \E oc \in ConnectOutcomes(db_type, None), ox \in QueryOutcomes :
        LET r == ManagerExecuteQuery(Current, env_vars, system_info, db_type, query,
                                     [connect |-> oc, execute |-> ox])
        IN  /\ Commit(r.st)
            /\ lastOp' = [op |-> "execute_query", db_type |-> db_type, query |-> query]
            /\ lastRet' = [raised |-> FALSE, form |-> "list", value |-> r.results]

\* connection_manager.verify_mapping(db_type)
EnsureMapping(db_type) ==
    \E mo \in MappingOutcomes(db_type) :
        LET r == VerifyMapping(Current, db_type, mo)
        IN  /\ Commit(r.st)
            /\ lastOp' = [op |-> "verify_mapping", db_type |-> db_type]
            /\ lastRet' = [raised |-> FALSE, form |-> "bool", value |-> r.ok]

\* connection_manager.get_mapping(db_type)
FetchMapping(db_type) ==
    \E mo \in MappingOutcomes(db_type) :
        LET r == GetMapping(Current, db_type, mo)
        IN  /\ Commit(r.st)
            /\ lastOp' = [op |-> "get_mapping", db_type |-> db_type]
            /\ lastRet' = [raised |-> FALSE, form |-> "mapping", value |-> r.mapping]

\* db_agent.run(input_data); the outcomes of the steps a request does not
\* reach are fixed
Run(input_data) ==
    LET input == InputDict(input_data)
        db_type == Lower(Get(input.connection, "type", "mysql"))
    IN  \E oc \in IF ValidateInput(input) THEN ConnectOutcomes(db_type, input.connection)
                  ELSE ConnectOutcomes("sqlite", None) :
        LET connected == ValidateInput(input)
                         /\ ManagerConnect(Current, env_vars, system_info, db_type,
                                           input.connection, oc).success
        IN  \E om \in IF connected THEN MappingOutcomes(db_type) ELSE MappingOutcomes("sqlite"),
               og \in IF connected THEN Answers ELSE {[ok |-> FALSE, text |-> <<>>]} :
            LET generated == connected /\ ~GenerateText(provider, og).raised
            IN  \E ox \in IF generated THEN RunQueryOutcomes ELSE {Failed},
                   oe \in IF generated THEN Explanations ELSE {[ok |-> FALSE, text |-> <<>>]} :
                LET r == AgentRun(Current, env_vars, system_info, provider, input_data,
                                  [connect |-> oc, mapping |-> om, generate |-> og,
                                   execute |-> ox, explain |-> oe])
                IN  /\ Commit(r.st)
                    /\ lastOp' = [op |-> "run", input_data |-> input_data]
                    /\ lastRet' = r.ret

\* the interactive "reset" command (and the --reset-cache flag): the manager
\* is asked for a clear_cache attribute, which DBConnectionManager does not
\* define, so nothing is called and the loop goes on to the next prompt
ResetCache ==
    /\ lastOp' = [op |-> "reset"]
    /\ lastRet' = NoRet
    /\ calls' = <<>>
    /\ UNCHANGED <<env_vars, system_info, provider, connections, db_mappings, connector,
                   handles, response, extracted>>

\* the server drops a connection, or the network does
HandleDies(h) ==
    /\ handles[h] = "alive"
    /\ handles' = [handles EXCEPT ![h] = "dead"]
    /\ lastOp' = [op |-> "handle_dies", handle |-> h]
    /\ lastRet' = NoRet
    /\ calls' = <<>>
    /\ UNCHANGED <<env_vars, system_info, provider, connections, db_mappings, connector,
                   response, extracted>>

Statements == {<<"SELECT", SP, "1">>}

\* query_builder._extract_sql_from_response(response)
Extract ==
    /\ lastOp.op = "init"
    /\ extracted' = ExtractSqlFromResponse(response)
    /\ lastOp' = [op |-> "extract"]
    /\ UNCHANGED <<env_vars, system_info, provider, connections, db_mappings, connector,
                   handles, lastRet, calls, response>>

(***************************************************************************)
(* Spec: the connection manager, driven through its public operations.     *)
(***************************************************************************)
Init == Constructed(EnvSnapshots, ManagerReports, {"claude"}, {<<>>})

Next ==
    \/ \E k \in ConnectKinds, p \in CustomParams : Connect(k, p)
    \/ \E k \in Kinds \cup {"None"} : Close(k)
    \/ \E k \in Kinds, q \in Statements : ExecuteQuery(k, q)
    \/ \E k \in Kinds : EnsureMapping(k)
    \/ \E k \in Kinds : FetchMapping(k)
    \/ ResetCache
    \/ \E h \in Handles : HandleDies(h)

Spec == Init /\ [][Next]_vars

(***************************************************************************)
(* SpecAgent: the facade, driven through run, while connections drop and   *)
(* are closed between requests.                                            *)
(***************************************************************************)
InitAgent == Constructed({EnvFull}, {ReportMySQL}, Providers, {<<>>})

NextAgent ==
    \/ \E i \in RunInputs : Run(i)
    \/ Close("mysql")
    \/ \E h \in Handles : HandleDies(h)

SpecAgent == InitAgent /\ [][NextAgent]_vars

(***************************************************************************)
(* SpecExtract: SQL extraction applied to every text of the alphabet, and  *)
(* to two answers of a model asked for sqlite: a block tagged sqlite, alone*)
(* and followed by a block tagged sql.                                     *)
(***************************************************************************)
SqliteFenced == <<BT, "sql", "ite", NL, "SELECT", SP, "x", NL, BT>>
TwoFences == SqliteFenced \o <<NL, BT, "sql", NL, "SELECT", NL, BT>>
Samples == {SqliteFenced, TwoFences}

InitExtract ==
    Constructed({EmptyDict}, {ReportSqliteOnly}, {"claude"}, TextsUpTo(MaxLen) \cup Samples)

NextExtract == Extract

SpecExtract == InitExtract /\ [][NextExtract]_vars

(***************************************************************************)
(* What the claims about extraction speak of.  The tag of a fence is the   *)
(* word that follows the fence marker; a fence is tagged sql when that     *)
(* word is sql, so the marker followed by sqlite opens no such fence.  The *)
(* fence is closed by the next marker; its content is what stands between  *)
(* the tag and that marker.                                                *)
(***************************************************************************)
IsWord(t) == ~IsWs(t) /\ t # BT
IsOpener(r, i) ==
    /\ i + 1 <= Len(r) /\ r[i] = BT /\ r[i + 1] = "sql"
    /\ (i + 2 <= Len(r) => ~IsWord(r[i + 2]))
Closers(r, i) == {j \in (i + 2)..Len(r) : r[j] = BT}
SqlFences(r) == {i \in 1..Len(r) : IsOpener(r, i) /\ Closers(r, i) # {}}
HasSqlFence(r) == SqlFences(r) # {}
FirstFence(r) == CHOOSE i \in SqlFences(r) : \A k \in SqlFences(r) : i <= k
FirstCloser(r) == CHOOSE j \in Closers(r, FirstFence(r)) : \A k \in Closers(r, FirstFence(r)) : j <= k
FirstFenceContent(r) == [n \in 1..(FirstCloser(r) - FirstFence(r) - 2) |-> r[FirstFence(r) + 1 + n]]

\* s without its leading and trailing whitespace, said without recursion
IsTrimOf(t, s) ==
    \E a \in 0..Len(s), b \in 0..Len(s) :
        /\ a + b <= Len(s)
        /\ \A i \in 1..a : IsWs(s[i])
        /\ \A i \in (Len(s) - b + 1)..Len(s) : IsWs(s[i])
        /\ t = SubSeq(s, a + 1, Len(s) - b)
        /\ (t # <<>> => ~IsWs(t[1]) /\ ~IsWs(t[Len(t)]))

\* a line whose trimmed text begins with a statement keyword
IsStatementLine(line) ==
    \E i \in 1..Len(line) : line[i] \in Keywords /\ \A j \in 1..(i - 1) : line[j] = SP

\* the lines of a text, as the stretches between its newlines
LineStarts(t) == {1} \cup {i + 1 : i \in {k \in 1..Len(t) : t[k] = NL}}
LineAt(t, a) ==
    LET stop == CHOOSE b \in a..(Len(t) + 1) :
                    /\ (b = Len(t) + 1 \/ t[b] = NL)
                    /\ \A k \in a..(b - 1) : t[k] # NL
    IN  SubSeq(t, a, stop - 1)
StatementStarts(t) == {a \in LineStarts(t) : IsStatementLine(LineAt(t, a))}

\* the statement lines of t from position a on, in order, joined by single spaces
RECURSIVE JoinedFrom(_, _)
JoinedFrom(t, a) ==
    LET rest == {b \in StatementStarts(t) : b > a}
    IN  IF rest = {} THEN LineAt(t, a)
        ELSE LineAt(t, a) \o <<SP>> \o JoinedFrom(t, CHOOSE b \in rest : \A c \in rest : b <= c)

StatementLinesJoined(t) ==
    JoinedFrom(t, CHOOSE a \in StatementStarts(t) : \A c \in StatementStarts(t) : a <= c)

(***************************************************************************)
(* C8: for every response that contains a code fence tagged sql, extraction*)
(* returns exactly the content of the first such fence, trimmed of         *)
(* surrounding whitespace: the text outside that fence (prose, lines that  *)
(* start with a statement keyword, other fenced blocks) is discarded.      *)
(* The code takes the first place where the marker is followed by the      *)
(* letters sql, which may be a fence tagged sqlite standing before the     *)
(* fence tagged sql.                                                       *)
(***************************************************************************)
C8_FenceRule ==
    (lastOp.op = "extract" /\ HasSqlFence(response))
        => IsTrimOf(extracted, FirstFenceContent(response))

(***************************************************************************)
(* C9: if the response has no fence tagged sql, the result is the lines of *)
(* the trimmed response whose trimmed text begins with one of the statement*)
(* keywords (matched case-sensitively), in their order, joined by single   *)
(* spaces, every other line dropped; if no line matches, the result is the *)
(* full response, trimmed and otherwise unchanged.  The code applies the   *)
(* fence rule to a fence tagged sqlite and returns the tail of the tag     *)
(* with the content.                                                       *)
(***************************************************************************)
C9_LineRule ==
    (lastOp.op = "extract" /\ ~HasSqlFence(response))
        => \E t \in {Strip(response)} :
              IF StatementStarts(t) # {}
              THEN extracted = StatementLinesJoined(t)
              ELSE IsTrimOf(extracted, response)

(***************************************************************************)
(* What the claims about connect speak of: the attempts a call announced,  *)
(* the dials of the connector that followed them, and the candidate of     *)
(* each tier.                                                              *)
(***************************************************************************)
IsAttempt(e) == e.c = "attempt"
IsDial(e) == e.c = "connector.connect"
Attempts == SelectSeq(calls, IsAttempt)
Dials == SelectSeq(calls, IsDial)
Tiers == {"explicit", "environment", "system"}
TierRank(t) == CASE t = "explicit" -> 1 [] t = "environment" -> 2 [] OTHER -> 3
Candidate(t, K, custom_params) ==
    CASE t = "explicit" -> IF Truthy(custom_params) THEN custom_params ELSE None
      [] t = "environment" -> GetEnvParams(env_vars, K)
      [] OTHER -> GetSystemParams(system_info, K)
Attempted(t) == \E i \in 1..Len(Attempts) : Attempts[i].tier = t

(***************************************************************************)
(* C1: a connect(K) that succeeds where there was no record leaves K's     *)
(* record active on a live handle; a connect(K), with or without explicit  *)
(* parameters, on an active record whose handle is alive returns success   *)
(* through the reuse path, announces no attempt, does not call the         *)
(* connector's connect and leaves the tables as they were.                 *)
(***************************************************************************)
C1_LivenessReuse ==
    [][lastOp'.op = "connect" =>
        LET K == Lower(lastOp'.db_type)
        IN  /\ (~Has(connections, K) /\ lastRet'.value.success)
                  => /\ Has(connections', K) /\ connections'[K].active
                     /\ handles'[connections'[K].connection] = "alive"
            /\ (Has(connections, K) /\ connections[K].active
                  /\ handles[connections[K].connection] = "alive")
                  => /\ lastRet'.value.success
                     /\ lastRet'.value.message.tag = "reused"
                     /\ \A i \in 1..Len(calls') : ~IsAttempt(calls'[i]) /\ ~IsDial(calls'[i])
                     /\ UNCHANGED <<connections, connector, handles>>]_vars

\* a second connect, with explicit parameters, answered from the live record
C1_Witness ==
    /\ lastOp.op = "connect" /\ lastOp.custom_params = ExplicitMySQL
    /\ lastRet.value.success /\ lastRet.value.message.tag = "reused"
    /\ Has(connections, "mysql") /\ connections["mysql"].params = TypeOnly("mysql")
    /\ Len(calls) = 1 /\ calls[1].c = "connector.is_connected" /\ calls[1].alive

(***************************************************************************)
(* C2: in every connect call the attempts follow the order explicit,       *)
(* environment, system, each with the candidate of its tier; a tier is     *)
(* attempted only after every tier before it that has a candidate was      *)
(* attempted and failed; nothing is attempted after a success; a connect   *)
(* that succeeds by dialling stores the candidate of its last attempt, the *)
(* only one that succeeded, and one that fails has attempted every tier    *)
(* that has a candidate.                                                   *)
(***************************************************************************)
C2_TierOrder ==
    lastOp.op = "connect" =>
        LET K == Lower(lastOp.db_type)
            n == Len(Dials)
        IN  /\ Len(Attempts) = n
            /\ \A i, j \in 1..n : i < j => TierRank(Attempts[i].tier) < TierRank(Attempts[j].tier)
            /\ \A i \in 1..n : Dials[i].params = Candidate(Attempts[i].tier, K, lastOp.custom_params)
            /\ \A i \in 1..n : Dials[i].connected => i = n
            /\ \A i \in 1..n : \A t \in Tiers :
                  (TierRank(t) < TierRank(Attempts[i].tier)
                     /\ Candidate(t, K, lastOp.custom_params) # None) => Attempted(t)
            /\ (lastRet.value.success /\ lastRet.value.message.tag # "reused")
                  => /\ n >= 1 /\ Dials[n].connected
                     /\ connections[K].params = Dials[n].params
            /\ ~lastRet.value.success
                  => /\ \A i \in 1..n : ~Dials[i].connected
                     /\ \A t \in Tiers : Candidate(t, K, lastOp.custom_params) # None => Attempted(t)

\* the explicit attempt failed, the environment attempt succeeded, and the
\* system tier, which had a candidate, was not tried
C2_Witness ==
    /\ lastOp.op = "connect" /\ lastRet.value.success
    /\ Len(Attempts) = 2
    /\ Attempts[1].tier = "explicit" /\ ~Dials[1].connected
    /\ Attempts[2].tier = "environment" /\ Dials[2].connected
    /\ GetSystemParams(system_info, "mysql") # None

(***************************************************************************)
(* C3: close(K) raises nothing and leaves no record for K, also when the   *)
(* close of the handle fails; where there is no record for K (a second     *)
(* close, a kind never opened) it changes nothing and calls nothing;       *)
(* close() leaves no record at all.                                        *)
(***************************************************************************)
C3_CloseTerminal ==
    [][lastOp'.op = "close" =>
        /\ ~lastRet'.raised
        /\ IF lastOp'.db_type = "None" THEN connections' = EmptyDict
           ELSE /\ ~Has(connections', lastOp'.db_type)
                /\ ~Has(connections, lastOp'.db_type)
                      => /\ UNCHANGED <<connections, db_mappings, connector, handles>>
                         /\ calls' = <<>>]_vars

\* the close of the handle failed: the connector still holds it, the record
\* is gone
C3_Witness ==
    /\ lastOp.op = "close" /\ lastOp.db_type = "mysql"
    /\ Len(calls) = 1 /\ calls[1].c = "handle.close"
    /\ Has(connector, "mysql") /\ handles[connector["mysql"]] = "alive"
    /\ ~Has(connections, "mysql")

(***************************************************************************)
(* C10: where MYSQL_HOST or MYSQL_USER is absent from the snapshot the     *)
(* environment tier yields no candidate for mysql and no call announces an *)
(* environment attempt; a candidate the tier yields carries the host of    *)
(* the snapshot, which is not empty, and an environment attempt that is    *)
(* made dials the host and the user of the snapshot.                       *)
(***************************************************************************)
C10_EnvNeedsHostAndUser ==
    /\ (~Has(env_vars, "MYSQL_HOST") \/ ~Has(env_vars, "MYSQL_USER"))
          => /\ GetEnvParams(env_vars, "mysql") = None
             /\ ~Attempted("environment")
    /\ GetEnvParams(env_vars, "mysql") # None
          => /\ Has(env_vars, "MYSQL_HOST") /\ Has(env_vars, "MYSQL_USER")
             /\ Has(GetEnvParams(env_vars, "mysql"), "host")
             /\ GetEnvParams(env_vars, "mysql")["host"] = env_vars["MYSQL_HOST"]
             /\ GetEnvParams(env_vars, "mysql")["host"] # ""
    /\ \A i \in 1..Len(Attempts) :
          Attempts[i].tier = "environment"
             => /\ Has(Dials[i].params, "host") /\ Dials[i].params["host"] = env_vars["MYSQL_HOST"]
                /\ Dials[i].params["host"] # ""
                /\ Has(Dials[i].params, "user") /\ Dials[i].params["user"] = env_vars["MYSQL_USER"]

\* no host in the snapshot: the call went from the explicit tier straight to
\* the system tier
C10_Witness ==
    /\ env_vars = EnvNoHost
    /\ lastOp.op = "connect" /\ lastRet.value.success
    /\ Len(Attempts) = 2
    /\ Attempts[1].tier = "explicit" /\ Attempts[2].tier = "system"

(***************************************************************************)
(* What the claims about run speak of: the requests validation must turn   *)
(* away, the steps a request went through, and whether its connect failed. *)
(***************************************************************************)
IsInvalid(input_data) ==
    IF input_data.is_str THEN input_data.text = ""
    ELSE \/ ~input_data.has_prompt \/ input_data.prompt = ""
         \/ ~input_data.has_connection \/ ~input_data.is_dict
Steps == {calls[i].c : i \in 1..Len(calls)}
ConnectFailed ==
    /\ \A i \in 1..Len(calls) : IsDial(calls[i]) => ~calls[i].connected
    /\ \A i \in 1..Len(calls) : calls[i].c = "connector.is_connected" => ~calls[i].alive
IsErrorResult(ret) == ~ret.raised /\ Has(ret.value, "error")
Executed == {calls[i].query : i \in {k \in 1..Len(calls) : calls[k].c = "driver.execute"}}

(***************************************************************************)
(* C4: whatever fails during run (the connection, the introspection, the   *)
(* model's generate_text during SQL generation or explanation, the query), *)
(* run returns a result and never raises.  The code has no handler between *)
(* generate_text and the caller of run.                                    *)
(***************************************************************************)
C4_NeverRaises == lastOp.op = "run" => ~lastRet.raised

(***************************************************************************)
(* C5: when every tier fails to connect, run returns an error result with  *)
(* an error and a suggestion, and the request stops there: no              *)
(* verify_mapping, no get_mapping, no model call, no query.                *)
(***************************************************************************)
C5_ShortCircuit ==
    (lastOp.op = "run" /\ ~IsInvalid(lastOp.input_data) /\ ConnectFailed)
        => /\ IsErrorResult(lastRet) /\ Has(lastRet.value, "suggestion")
           /\ lastRet.value["error"].tag = "no_connection"
           /\ Steps \subseteq {"connector.is_connected", "attempt", "connector.connect"}

\* the three tiers were tried and all failed
C5_Witness ==
    /\ lastOp.op = "run" /\ ~IsInvalid(lastOp.input_data)
    /\ Len(Attempts) = 3 /\ \A i \in 1..3 : ~Dials[i].connected
    /\ IsErrorResult(lastRet) /\ lastRet.value["error"].message.tag = "exhausted"

(***************************************************************************)
(* C6: a request whose prompt is missing or empty, or whose connection is  *)
(* missing or not a mapping, gets an error result; run does not raise and  *)
(* calls nothing: no connection attempt, no model call, no query.          *)
(***************************************************************************)
C6_ValidatesFirst ==
    (lastOp.op = "run" /\ IsInvalid(lastOp.input_data))
        => /\ calls = <<>>
           /\ IsErrorResult(lastRet) /\ lastRet.value["error"].tag = "invalid_input"

\* a request whose connection is not a mapping, turned away while a
\* connection is open
C6_Witness ==
    /\ lastOp.op = "run"
    /\ ~lastOp.input_data.is_str /\ lastOp.input_data.has_connection
    /\ ~lastOp.input_data.is_dict
    /\ IsErrorResult(lastRet) /\ calls = <<>>
    /\ Has(connections, "mysql")

(***************************************************************************)
(* C7: a failed SQL generation is never taken for SQL: run does not        *)
(* execute the empty string or the provider's error text, and returns      *)
(* neither as the query of a result.  The code executes whatever           *)
(* build_query returned.                                                   *)
(***************************************************************************)
C7_GenerationFailureSurfaced ==
    lastOp.op = "run"
        => /\ Executed \cap {<<>>, OllamaErrorText} = {}
           /\ (~lastRet.raised /\ Has(lastRet.value, "query"))
                 => lastRet.value["query"] \notin {<<>>, OllamaErrorText}

(***************************************************************************)
(* C11: a connect of mysql or postgresql that has no explicit parameters,  *)
(* no environment candidate and no live record to reuse, where the report  *)
(* lists the kind, makes exactly one attempt, with host 127.0.0.1, user    *)
(* root (postgres for postgresql), an empty password and the first         *)
(* detected port of the kind, or 3306 (5432) when none was detected; for   *)
(* mysql with detected ports [3306] that is port 3306.                     *)
(***************************************************************************)
Reused == \E i \in 1..Len(calls) : calls[i].c = "connector.is_connected" /\ calls[i].alive
Synthesized(K, ports) ==
    [type |-> K, host |-> "127.0.0.1", user |-> IF K = "mysql" THEN "root" ELSE "postgres",
     password |-> "",
     port |-> IF ports # <<>> THEN ports[1] ELSE IF K = "mysql" THEN 3306 ELSE 5432]

C11_SystemCandidate ==
    (/\ lastOp.op = "connect" /\ ~Truthy(lastOp.custom_params) /\ ~Reused
     /\ Lower(lastOp.db_type) \in {"mysql", "postgresql"}
     /\ GetEnvParams(env_vars, Lower(lastOp.db_type)) = None
     /\ Has(system_info.database_systems, Lower(lastOp.db_type)))
        => /\ Len(Attempts) = 1 /\ Attempts[1].tier = "system"
           /\ Len(Dials) = 1
           /\ Dials[1].params =
                Synthesized(Lower(lastOp.db_type),
                            system_info.database_systems[Lower(lastOp.db_type)].ports_detected)
           /\ system_info = ReportMySQL /\ Lower(lastOp.db_type) = "mysql"
                 => Dials[1].params = [type |-> "mysql", host |-> "127.0.0.1", user |-> "root",
                                       password |-> "", port |-> 3306]

\* the one attempt, on the first of two detected ports
C11_Witness ==
    /\ lastOp.op = "connect" /\ lastOp.db_type = "mysql" /\ lastOp.custom_params = None
    /\ env_vars = EmptyDict /\ system_info = ReportManyPorts
    /\ Len(Dials) = 1 /\ Dials[1].params["port"] = 3307 /\ Dials[1].connected

(***************************************************************************)
(* What the claims about the schema map speak of: the queries a call       *)
(* handed to the connector, and those among them the driver failed.        *)
(***************************************************************************)
IsErrorFree(ret) == ~ret.raised /\ ~Has(ret.value, "error")
IsResult(ret) == IsErrorFree(ret) /\ Has(ret.value, "query") /\ Has(ret.value, "results")
                    /\ Has(ret.value, "explanation")
DriverCalls == {i \in 1..Len(calls) : calls[i].c = "driver.execute"}
Introspected == \E i \in 1..Len(calls) : calls[i].c = "connector.execute_query"
                    /\ calls[i].query = ShowTables
TableListed == \E i \in DriverCalls : calls[i].query = ShowTables /\ calls[i].ok
TableListingFailed == \E i \in DriverCalls : calls[i].query = ShowTables /\ ~calls[i].ok
ColumnListingFailed == \E i \in DriverCalls : calls[i].query = Describe("clients") /\ ~calls[i].ok

(***************************************************************************)
(* C12: the request for sqlite with database :memory: and no prior map     *)
(* goes through the whole pipeline: run returns query, results and         *)
(* explanation, the results empty, the map of sqlite an empty table set,   *)
(* and no error result.  The connector has a driver for mysql only, so no  *)
(* tier can connect.                                                       *)
(***************************************************************************)
C12_SqlitePipeline ==
    (lastOp.op = "run" /\ lastOp.input_data = Request(TRUE, Question, TRUE, TRUE, SqliteMemory))
        => /\ IsResult(lastRet)
           /\ lastRet.value["results"] = <<>>
           /\ Has(db_mappings, "sqlite") /\ db_mappings["sqlite"].tables = EmptyDict

(***************************************************************************)
(* C13: a map is built whole or not at all: no cached map holds a table    *)
(* without its columns, and a verify_mapping whose table listing succeeded *)
(* and whose column listing failed returns false and stores no map.  The   *)
(* connector turns the failed query into an empty list, which the          *)
(* generator takes for a table without columns.                            *)
(***************************************************************************)
C13_AllOrNothing ==
    /\ \A K \in DOMAIN db_mappings : \A t \in DOMAIN db_mappings[K].tables :
          db_mappings[K].tables[t].columns # <<>>
    /\ (lastOp.op = "verify_mapping" /\ TableListed /\ ColumnListingFailed)
          => /\ lastRet.value = FALSE
             /\ ~Has(db_mappings, lastOp.db_type)

(***************************************************************************)
(* C14: verify_mapping(K) returns true exactly when a map for K is cached  *)
(* after the call, either cached before or built now from an active        *)
(* record; a map is built only from an active record; and when a query of  *)
(* the generation fails the call returns false and stores nothing.  The    *)
(* generator cannot see a failed query: it stores the empty map.           *)
(***************************************************************************)
C14_EnsureMapping ==
    lastOp.op = "verify_mapping"
        => /\ lastRet.value <=> Has(db_mappings, lastOp.db_type)
           /\ Introspected
                 => /\ Has(connections, lastOp.db_type)
                    /\ connections[lastOp.db_type].active
           /\ (TableListingFailed \/ ColumnListingFailed)
                 => /\ ~lastRet.value
                    /\ ~Has(db_mappings, lastOp.db_type)

(***************************************************************************)
(* C15: a run whose connection is live and whose verify_mapping returned   *)
(* false (no map is cached after it) goes on: it calls the model, executes *)
(* the SQL and returns query, results and explanation.  The code returns   *)
(* the error result of lines 75 to 81 instead.                             *)
(***************************************************************************)
C15_ProceedsWithoutSchema ==
    (/\ lastOp.op = "run" /\ ~IsInvalid(lastOp.input_data) /\ ~ConnectFailed
     /\ "verify_mapping" \in Steps
     /\ ~Has(db_mappings, Lower(Get(InputDict(lastOp.input_data).connection, "type", "mysql"))))
        => /\ "generate_text" \in Steps
           /\ ~lastRet.raised => IsResult(lastRet)

(***************************************************************************)
(* C16: what connect prints and returns does not depend on the value of a  *)
(* non-empty password: from every reachable state, a connect with the      *)
(* explicit parameters and the same connect with another password, met by  *)
(* the same outcomes of the driver, print the same lines and return the    *)
(* same success and message; likewise for two environment snapshots that   *)
(* differ in MYSQL_PASSWORD only; and every printed line shows the         *)
(* password as eight asterisks, or as the empty marker when it is empty.   *)
(***************************************************************************)
OtherPassword == "0ther"
WithPassword(params, pw) == [params EXCEPT !["password"] = pw]
DriverOutcomes == [explicit : BOOLEAN, env : BOOLEAN, system : BOOLEAN]
SameToTheReader(a, b) ==
    /\ Printed(a.st.calls) = Printed(b.st.calls)
    /\ a.success = b.success
    /\ a.message = b.message

C16_PasswordBlind ==
    /\ \A k \in {"mysql", "sqlite"}, o \in DriverOutcomes :
          SameToTheReader(
              ManagerConnect(Current, env_vars, system_info, k, ExplicitMySQL, o),
              ManagerConnect(Current, env_vars, system_info, k,
                             WithPassword(ExplicitMySQL, OtherPassword), o))
    /\ env_vars = EnvFull
          => \A o \in DriverOutcomes :
                SameToTheReader(
                    ManagerConnect(Current, [env_vars EXCEPT !["MYSQL_PASSWORD"] = "s3cret"],
                                   system_info, "mysql", None, o),
                    ManagerConnect(Current, [env_vars EXCEPT !["MYSQL_PASSWORD"] = OtherPassword],
                                   system_info, "mysql", None, o))
    /\ \A i \in 1..Len(calls) :
          (IsDial(calls[i]) /\ Has(calls[i].params, "password"))
             => Printed(calls)[i].params["password"] =
                   (IF calls[i].params["password"] = "" THEN "[vacio]" ELSE "********")

\* an explicit attempt with the password hunter2, printed as asterisks
C16_Witness ==
    /\ lastOp.op = "connect" /\ lastOp.custom_params = ExplicitMySQL
    /\ \E i \in 1..Len(calls) :
          /\ IsDial(calls[i]) /\ calls[i].params["password"] = "hunter2"
          /\ Printed(calls)[i].params["password"] = "********"

(***************************************************************************)
(* C17: execute_query(K, sql) raises nothing; it calls connect(K), without *)
(* explicit parameters, once when K has no record or an inactive one and   *)
(* not at all otherwise; when that connect fails it hands nothing to the   *)
(* connector and returns the empty list; otherwise it hands the query to   *)
(* the connector exactly once; and when the driver fails the query the     *)
(* result is the empty list.                                               *)
(***************************************************************************)
C17_ExecuteEnsuresRecord ==
    [][lastOp'.op = "execute_query" =>
        LET K == lastOp'.db_type
            needs == ~Has(connections, K) \/ ~connections[K].active
            connects == {i \in 1..Len(calls') : calls'[i].c = "connect"}
            handed == {i \in 1..Len(calls') : calls'[i].c = "connector.execute_query"}
            connected == \E i \in 1..Len(calls') :
                            \/ IsDial(calls'[i]) /\ calls'[i].connected
                            \/ calls'[i].c = "connector.is_connected" /\ calls'[i].alive
        IN  /\ ~lastRet'.raised
            /\ Cardinality(connects) = (IF needs THEN 1 ELSE 0)
            /\ \A i \in connects : calls'[i].db_type = K /\ calls'[i].custom_params = None
            /\ \A i \in 1..Len(calls') : IsAttempt(calls'[i]) => calls'[i].tier # "explicit"
            /\ (needs /\ ~connected) => (handed = {} /\ lastRet'.value = <<>>)
            /\ (~needs \/ connected)
                  => /\ Cardinality(handed) = 1
                     /\ \A i \in handed : calls'[i].kind = K /\ calls'[i].query = lastOp'.query
            /\ (\E i \in 1..Len(calls') : calls'[i].c = "driver.execute" /\ ~calls'[i].ok)
                  => lastRet'.value = <<>>]_vars

\* no record: connect is called, the system tier connects, the query runs
C17_Witness ==
    /\ lastOp.op = "execute_query" /\ lastOp.db_type = "mysql"
    /\ calls[1].c = "connect"
    /\ \E i \in 1..Len(calls) : IsDial(calls[i]) /\ calls[i].connected
    /\ \E i \in 1..Len(calls) : calls[i].c = "driver.execute" /\ calls[i].ok
    /\ lastRet.value # <<>>


(***************************************************************************)
(* C18: the two calling conventions.                                       *)
(***************************************************************************)
\* the text block a structured result is serialised to: the error text with
\* its suggestion, or the SQL, the JSON-rendered results and the explanation
Serialized(resp) ==
    IF Has(resp, "error")
    THEN [raised |-> FALSE, form |-> "text",
          value |-> [error |-> resp["error"],
                     suggestion |-> Get(resp, "suggestion", "Intente con otra consulta")]]
    ELSE [raised |-> FALSE, form |-> "text",
          value |-> [query |-> resp["query"], results |-> [json |-> resp["results"]],
                     explanation |-> resp["explanation"]]]

\* what the collaborators answer to one request, the same under both
\* conventions
Scenario(reachable, rows) ==
    [connect |-> [explicit |-> reachable, env |-> reachable, system |-> reachable],
     mapping |-> [tables |-> Rows(<< <<"clients">> >>),
                  columns |-> Rows(<< <<"id">>, <<"name">> >>)],
     generate |-> [ok |-> TRUE, text |-> Fenced],
     execute |-> rows,
     explain |-> [ok |-> TRUE, text |-> <<"It", SP, "lists">>]]
Scenarios == {Scenario(r, x) : r \in BOOLEAN, x \in QueryOutcomes}

AsString(s, o) == AgentRun(Current, env_vars, system_info, provider, BareString(s), o)
AsRequest(s, o) ==
    AgentRun(Current, env_vars, system_info, provider,
             Request(TRUE, s, TRUE, TRUE, TypeOnly("mysql")), o)

\* C18: in every state and for every string s, run(s) makes the calls that
\* run({prompt: s, connection: {type: "mysql"}}) makes, leaves the state that
\* request leaves, and returns the text serialisation of its structured
\* result (or raises what it raises).
C18_ConventionsAgree ==
    \A s \in {"", Question}, o \in Scenarios :
        /\ AsString(s, o).st = AsRequest(s, o).st
        /\ AsString(s, o).ret = IF AsRequest(s, o).ret.raised THEN AsRequest(s, o).ret
                                ELSE Serialized(AsRequest(s, o).ret.value)


(***************************************************************************)
(* C19: the cache reset.                                                   *)
(***************************************************************************)
\* C19: after the reset command no kind has a cached schema map (so that the
\* next verify_mapping has to regenerate it from the live connection).
C19_ResetInvalidates ==
    lastOp.op = "reset" => \A K \in Kinds : ~Has(db_mappings, K)


(***************************************************************************)
(* C20: a record whose liveness check fails.                               *)
(***************************************************************************)
ProbeFailed ==
    \E i \in 1..Len(calls) : calls[i].c = "connector.is_connected" /\ ~calls[i].alive

\* C20: a connect(K) whose liveness check of K's active record failed, and
\* whose tiers all failed after it, returns failure and does not leave K's
\* record active.
C20_FailedProbeDeactivates ==
    (lastOp.op = "connect" /\ ProbeFailed /\ ~lastRet.value.success)
        => ~(/\ Has(connections, Lower(lastOp.db_type))
             /\ connections[Lower(lastOp.db_type)].active)

(***************************************************************************)
(* C21: reconnection after a failed liveness check.                        *)
(***************************************************************************)
\* C21: a connect(K) whose liveness check of K's record failed goes on to the
\* tiers within the same call (an attempt is announced whenever a tier has a
\* candidate), and if a dial of that call connects, the call returns success
\* and K's record is active, holds the parameters of that dial and the handle
\* the connector now holds for K, which is alive.
C21_ReconnectsAfterFailedProbe ==
    (lastOp.op = "connect" /\ ProbeFailed) =>
        /\ (\E t \in Tiers : Candidate(t, Lower(lastOp.db_type), lastOp.custom_params) # None)
              => Attempts # <<>>
        /\ \A i \in 1..Len(Dials) : Dials[i].connected =>
              /\ lastRet.value.success
              /\ Has(connections, Lower(lastOp.db_type))
              /\ connections[Lower(lastOp.db_type)].active
              /\ connections[Lower(lastOp.db_type)].params = Dials[i].params
              /\ Has(connector, Lower(lastOp.db_type))
              /\ connections[Lower(lastOp.db_type)].connection = connector[Lower(lastOp.db_type)]
              /\ handles[connector[Lower(lastOp.db_type)]] = "alive"

\* a connect that found its record's handle dead and connected again
C21_Witness ==
    /\ lastOp.op = "connect" /\ ProbeFailed
    /\ \E i \in 1..Len(Dials) : Dials[i].connected
    /\ lastRet.value.success
    /\ handles[connections[Lower(lastOp.db_type)].connection] = "alive"

(***************************************************************************)
(* C22: a schema map is served only for a kind with an active record.      *)
(***************************************************************************)
Served ==
    \/ lastOp.op = "verify_mapping" /\ lastRet.value = TRUE
    \/ lastOp.op = "get_mapping" /\ lastRet.value # None

\* C22: whenever verify_mapping(K) answers true or get_mapping(K) returns a
\* map, K has a connection record and the record is active; so neither does
\* after close(K).
C22_MapNeedsActiveRecord ==
    Served => /\ Has(connections, lastOp.db_type)
              /\ connections[lastOp.db_type].active

(***************************************************************************)
(* C23: the order of the steps of a successful run.  In the call log the   *)
(* steps of connect are the liveness check, the announcements and the      *)
(* dials; verify_mapping is followed by its introspection queries;         *)
(* get_mapping asks verify_mapping itself, which is the entry right after  *)
(* it; the two model calls differ in the purpose of their prompt.          *)
(***************************************************************************)
At(c) == {i \in 1..Len(calls) : calls[i].c = c}
ConnectSteps == At("connector.is_connected") \cup At("attempt") \cup At("connector.connect")
ModelCalls(purpose) == {i \in At("generate_text") : calls[i].prompt.purpose = purpose}
Succeeded == lastOp.op = "run" /\ IsResult(lastRet)
ResultRows == IF lastRet.form = "text" THEN lastRet.value["results"].json
              ELSE lastRet.value["results"]

\* C23: a run that returns a result has connected first, then asked
\* verify_mapping once, then get_mapping once, then the model once for the
\* SQL, then handed one query to the connector, then asked the model once for
\* the explanation; the query of the result is the one handed to the
\* connector and explained, both model calls carry the request's prompt, and
\* a query the driver failed has no rows in the result.
C23_StepOrder ==
    Succeeded =>
        \E v \in At("verify_mapping"), g \in At("get_mapping"),
           b \in ModelCalls("sql"), x \in At("connector.execute_query"),
           e \in ModelCalls("explain") :
            /\ ConnectSteps # {} /\ \A i \in ConnectSteps : i < v
            /\ At("connect") = {}
            /\ At("verify_mapping") = {v, g + 1} /\ At("get_mapping") = {g}
            /\ At("generate_text") = {b, e}
            /\ {i \in At("connector.execute_query") : i > g} = {x}
            /\ \A i \in At("connector.execute_query") \ {x} : v < i /\ i < g
            /\ v < g /\ g + 1 < b /\ b < x /\ x < e
            /\ calls[b].prompt.request = InputDict(lastOp.input_data).prompt
            /\ calls[e].prompt.request = InputDict(lastOp.input_data).prompt
            /\ calls[x].query = lastRet.value["query"]
            /\ calls[e].prompt.sql = lastRet.value["query"]
            /\ \A i \in At("driver.execute") :
                  (i > x /\ ~calls[i].ok) => ResultRows = <<>>

\* a run that returned the rows of its query
C23_Witness ==
    /\ Succeeded
    /\ lastRet.form = "dict"
    /\ lastRet.value["results"] = << <<"1">> >>
    /\ lastRet.value["query"] = <<"SELECT", SP, "1">>

(***************************************************************************)
(* C24: a query that fails at the database, and its explanation.           *)
(***************************************************************************)
ExplainPrompts(log) ==
    {log[i].prompt : i \in {k \in 1..Len(log) : /\ log[k].c = "generate_text"
                                                 /\ log[k].prompt.purpose = "explain"}}
DriverFailed(log) == \E i \in 1..Len(log) : log[i].c = "driver.execute" /\ ~log[i].ok
WithFailure == AsRequest(Question, Scenario(TRUE, Failed))
WithNoRows == AsRequest(Question, Scenario(TRUE, Rows(<<>>)))

\* C24: in every state, the request whose generated SQL fails at the database
\* gets an empty result set, and the explanation is asked for with a prompt
\* that differs from the prompt of the same request when the SQL executes and
\* returns no rows.
C24_FailureReachesExplanation ==
    (/\ DriverFailed(WithFailure.st.calls)
     /\ ExplainPrompts(WithFailure.st.calls) # {}
     /\ ExplainPrompts(WithNoRows.st.calls) # {})
        => /\ WithFailure.ret.value["results"] = <<>>
           /\ ExplainPrompts(WithFailure.st.calls) # ExplainPrompts(WithNoRows.st.calls)

(***************************************************************************)
(* C25: the message of an exhausted connect.                               *)
(***************************************************************************)
Tried(log) == {log[i].tier : i \in {k \in 1..Len(log) : log[k].c = "attempt"}}
NoneConnects == [explicit |-> FALSE, env |-> FALSE, system |-> FALSE]
DetectedPorts(K) ==
    IF Has(system_info["database_systems"], K)
    THEN system_info["database_systems"][K].ports_detected ELSE <<>>
\* the same kind asked for in the same state with other explicit parameters,
\* every attempt failing
Exhaust(P) == ManagerConnect(Current, env_vars, system_info, lastOp.db_type, P, NoneConnects)

\* C25: the message of a connect(K) that exhausted its attempts asks to check
\* that the server is running and that the credentials are correct, lists the
\* ports detected for K when the report has any, and names the tiers that
\* were tried: a call that tried other tiers gets another message.
C25_ExhaustedMessage ==
    (lastOp.op = "connect" /\ ~lastRet.value.success) =>
        /\ lastRet.value.message.check_server
        /\ lastRet.value.message.check_credentials
        /\ DetectedPorts(Lower(lastOp.db_type)) # <<>>
              => lastRet.value.message.ports = DetectedPorts(Lower(lastOp.db_type))
        /\ \A P \in CustomParams :
              (~Exhaust(P).success /\ Tried(Exhaust(P).st.calls) # Tried(calls))
                  => Exhaust(P).message # lastRet.value.message

(***************************************************************************)
(* C26: isolation by kind.  A kind is its name in lower case; the keys of  *)
(* the tables are the names as they were passed.                           *)
(***************************************************************************)
Keys == Kinds \cup ConnectKinds
SameAt(before, after, k) ==
    /\ Has(before, k) = Has(after, k)
    /\ Has(before, k) => before[k] = after[k]
OnOneKind(op) ==
    \/ op.op \in {"connect", "execute_query", "verify_mapping"}
    \/ op.op = "close" /\ op.db_type # "None"

\* C26: a connect, execute_query, verify_mapping or close(K1) on kind K1,
\* whether it succeeds or fails, leaves every other kind's connection record,
\* connector handle (and the state of that handle) and schema map as they
\* were.
C26_IsolatedByKind ==
    [][OnOneKind(lastOp') =>
        \A K2 \in Keys : Lower(K2) # Lower(lastOp'.db_type) =>
            /\ SameAt(connections, connections', K2)
            /\ SameAt(connector, connector', K2)
            /\ SameAt(db_mappings, db_mappings', K2)
            /\ Has(connector, K2) => handles'[connector[K2]] = handles[connector[K2]]]_vars

\* an operation on sqlite made while mysql holds a record, a handle and a map
C26_Witness ==
    /\ OnOneKind(lastOp) /\ lastOp.db_type = "sqlite"
    /\ Has(connections, "mysql") /\ Has(connector, "mysql") /\ Has(db_mappings, "mysql")

(***************************************************************************)
(* C27: one handle per kind.  A handle is open from the dial that returned *)
(* it until it is closed, whether or not its server still answers.         *)
(***************************************************************************)
Open == {h \in Handles : handles[h] \in {"alive", "dead"}}
Held == {connector[k] : k \in DOMAIN connector}

\* C27: in every state the handle in the manager's record for K is the
\* handle the connector holds for K, and every open handle is one the
\* connector holds: a handle replaced by a reconnect has been closed.
C27_SingleHandle ==
    /\ \A K \in DOMAIN connections :
          Has(connector, K) /\ connections[K].connection = connector[K]
    /\ Open \subseteq Held

(***************************************************************************)
(* C28: the spelling of the kind.                                          *)
(***************************************************************************)
Connected == lastOp.op = "connect" /\ lastRet.value.success
\* the operations that may follow, asked with the spelling connect was given,
\* the database answering every query
ThenExecute ==
    ManagerExecuteQuery(Current, env_vars, system_info, lastOp.db_type, <<"SELECT", SP, "1">>,
                        [connect |-> NoneConnects, execute |-> Rows(<< <<"1">> >>)])
ThenVerify ==
    VerifyMapping(Current, lastOp.db_type,
                  [tables |-> Rows(<< <<"clients">> >>),
                   columns |-> Rows(<< <<"id">>, <<"name">> >>)])
ThenClose == ManagerClose(Current, lastOp.db_type, [k \in Kinds |-> TRUE])

\* C28: after a connect(K) that succeeded, for every spelling K, an
\* execute_query(K, sql) is run by the driver on K's connection and returns
\* its rows, verify_mapping(K) answers true, and close(K) removes the record
\* the connect created.
C28_UniformKey ==
    Connected =>
        /\ \E i \in 1..Len(ThenExecute.st.calls) :
              /\ ThenExecute.st.calls[i].c = "driver.execute"
              /\ ThenExecute.st.calls[i].ok
        /\ ThenExecute.results = << <<"1">> >>
        /\ ThenVerify.ok
        /\ ~Has(ThenClose.connections, Lower(lastOp.db_type))

(***************************************************************************)
(* C29: a request whose connection names the kind alone.                   *)
(***************************************************************************)
KindOnly ==
    /\ lastOp.op = "run"
    /\ ValidateInput(InputDict(lastOp.input_data))
    /\ InputDict(lastOp.input_data).connection = TypeOnly("mysql")
BuiltIn == ConnParams(EmptyDict)

\* C29: when run is given a connection that holds only the type and the
\* environment yields a candidate, the first attempt of the request is the
\* environment tier's, dialled with the environment's parameters, and not a
\* dial with the connector's built-in host, port, user and password.
C29_KindOnlyEscalates ==
    (KindOnly /\ Dials # <<>> /\ GetEnvParams(env_vars, "mysql") # None) =>
        /\ Attempts[1].tier = "environment"
        /\ Dials[1].params = GetEnvParams(env_vars, "mysql")
        /\ ConnParams(Dials[1].params) # BuiltIn

(***************************************************************************)
(* C30: the reuse path and the parameters of the call.                     *)
(***************************************************************************)
AliveRecord(K) ==
    /\ Has(connections, K) /\ connections[K].active
    /\ handles[connections[K].connection] = "alive"

\* C30: while K's record is active and its handle alive, no operation changes
\* the record (a close may remove it), and a connect(K, P) whose P differs
\* from the stored parameters returns success through the reuse path without
\* announcing or dialling an attempt, the record keeping its handle and its
\* parameters: other parameters take effect only after a close.
C30_ReuseIgnoresParams ==
    [][\A K \in Keys : AliveRecord(K) =>
          /\ Has(connections', K) => connections'[K] = connections[K]
          /\ (/\ lastOp'.op = "connect" /\ Lower(lastOp'.db_type) = K
              /\ Truthy(lastOp'.custom_params)
              /\ lastOp'.custom_params # connections[K].params)
                => /\ lastRet'.value.success
                   /\ lastRet'.value.message.tag = "reused"
                   /\ \A i \in 1..Len(calls') : ~IsAttempt(calls'[i]) /\ ~IsDial(calls'[i])
                   /\ Has(connections', K)
                   /\ handles'[connections'[K].connection] = "alive"]_vars

\* a connect with full explicit parameters answered from a record that was
\* made with others
C30_Witness ==
    /\ lastOp.op = "connect" /\ lastOp.custom_params = ExplicitMySQL
    /\ Reused /\ calls = <<[c |-> "connector.is_connected", kind |-> "mysql", alive |-> TRUE]>>
    /\ Has(connections, "mysql") /\ connections["mysql"].params # ExplicitMySQL
    /\ lastRet.value.success

====
